---- MODULE Spec2Model ----
(***************************************************************************)
(* Reservation scheduling core of server.js: the overlap check, the car    *)
(* status derivation, the reservation create / amend / delete handlers,    *)
(* the availability check, the JSON file store and the Telegram notifier.  *)
(*                                                                         *)
(* Every Express handler of server.js is synchronous (readFileSync,        *)
(* writeFileSync, renameSync, no await before the response), so Node runs  *)
(* each handler to completion before the next request is looked at: one    *)
(* handler is one atomic step, and concurrent requests are requests that   *)
(* wait in flight and are handled in any order.                            *)
(***************************************************************************)
EXTENDS Integers, Sequences, FiniteSets, TLC

\* ----- Bounds of the model -----
\* Instants are 0..MaxT (epoch milliseconds, scaled).
MaxT == 2
\* Requests handled in one run (nanoid(12) is a counter, so it bounds the ids too).
MaxRequests == 3
\* Requests that may wait in flight at the same time.
MaxInflight == 2

Instants == 0..MaxT

\* ----- JavaScript values as they arrive in a JSON body -----
\* undef: the key is absent; null: JSON null; num: a number; iso: a string
\* that is a date-time naming instant v; empty: the string ""; str: an
\* identifier string (id number v); digits: the decimal text of number v.
Undef      == [k |-> "undef",  v |-> 0]
Null       == [k |-> "null",   v |-> 0]
Empty      == [k |-> "empty",  v |-> 0]
NaN        == [k |-> "nan",    v |-> 0]
Num(n)     == [k |-> "num",    v |-> n]
Iso(n)     == [k |-> "iso",    v |-> n]
Str(n)     == [k |-> "str",    v |-> n]
Digits(n)  == [k |-> "digits", v |-> n]
\* bad: a non-empty string that is not a date; obj: an object such as {}.
Bad        == [k |-> "bad",    v |-> 0]
Obj        == [k |-> "obj",    v |-> 0]

\* JavaScript truthiness: undefined, null, 0, NaN and "" are falsy.
Truthy(x) ==
    CASE x.k \in {"undef", "null", "empty", "nan"} -> FALSE
      [] x.k = "num" -> x.v # 0
      [] OTHER -> TRUE

\* a ?? b
Coalesce(a, b) == IF a.k \in {"undef", "null"} THEN b ELSE a

\* String(x || '')
StringOrEmpty(x) ==
    IF ~Truthy(x) THEN Empty
    ELSE IF x.k = "num" THEN Digits(x.v) ELSE x

\* The "no value" result of toMs.
NoMs == -1

\* A conversion that reads the empty string as the epoch, as Number('') does.
toMsLenient(x) ==
    CASE x.k = "num"  -> x.v
      [] x.k = "iso"  -> x.v
      [] x.k \in {"null", "empty"} -> 0
      [] OTHER -> NoMs

toMs(x) ==
    CASE x.k = "num"  -> x.v
      [] x.k = "iso"  -> x.v
      [] x.k = "null" -> 0
      [] OTHER -> NoMs

\* A half-open test, under which intervals that only touch do not overlap.
rangeOverlapHalfOpen(aStart, aEnd, bStart, bEnd) == aStart < bEnd /\ bStart < aEnd

rangeOverlap(aStart, aEnd, bStart, bEnd) == aStart <= bEnd /\ bStart <= aEnd

\* ----- Calendar days -----
\* Instants per local calendar day of DEFAULT_TZ (Asia/Baku has a fixed offset).
TicksPerDay == 2

\* A thrown exception, as the value of the expression that throws.
Throws == [k |-> "throws", v |-> 0]

\* dayjs.tz(x, tz).startOf('day') as a day number: a number or a date string is
\* that instant's day, undefined is today, null and an object are an invalid
\* date (dayjs(x).tz(tz) for a value that is not a string), and an unparseable
\* string makes the timezone plug-in throw a RangeError.
tzStartOfDay(x, clock) ==
    CASE x.k \in {"num", "iso"} -> Num(x.v \div TicksPerDay)
      [] x.k = "undef" -> Num(clock \div TicksPerDay)
      [] x.k \in {"null", "nan", "obj"} -> NaN
      [] OTHER -> Throws

\* A day count that is the bare difference of the two days.
daysBetweenExclusive(startISO, endISO, clock) ==
    LET s == tzStartOfDay(startISO, clock)
        e == tzStartOfDay(endISO, clock)
    IN  IF s = Throws \/ e = Throws THEN Throws
        ELSE IF s = NaN \/ e = NaN THEN NaN
        ELSE Num(e.v - s.v)

\* Math.max(1, e.diff(s, 'day') + 1); NaN when a date is invalid.
daysBetweenInclusive(startISO, endISO, clock) ==
    LET s == tzStartOfDay(startISO, clock)
        e == tzStartOfDay(endISO, clock)
    IN  IF s = Throws \/ e = Throws THEN Throws
        ELSE IF s = NaN \/ e = NaN THEN NaN
        ELSE IF e.v - s.v + 1 >= 1 THEN Num(e.v - s.v + 1) ELSE Num(1)

\* Number(x)
ToNumber(x) ==
    CASE x.k \in {"num", "digits"} -> Num(x.v)
      [] x.k \in {"null", "empty"} -> Num(0)
      [] OTHER -> NaN

\* A total to which the discount is added instead of deducted.
totalPriceSurcharged(unit, days, disc) ==
    IF unit.k # "num" \/ days.k # "num" \/ disc.k # "num" THEN NaN
    ELSE Num((unit.v * days.v * (100 + disc.v) + 50) \div 100)

\* Math.round(unit * days * (1 - disc/100)), rounding half up
totalPriceOf(unit, days, disc) ==
    IF unit.k # "num" \/ days.k # "num" \/ disc.k # "num" THEN NaN
    ELSE LET x100 == unit.v * days.v * (100 - disc.v)
         IN  Num((x100 + 50) \div 100)

\* ----- Records -----
\* A reservation as stored in reservations.json (destination, createdAt and
\* updatedAt carry no behaviour and are left out).
Reservation(id, carId, customerId, startAt, endAt, unit, disc, days, total) ==
    [id |-> id, carId |-> carId, customerId |-> customerId,
     startAt |-> startAt, endAt |-> endAt, startDate |-> Undef, endDate |-> Undef,
     pricePerDay |-> unit, discountPercent |-> disc, days |-> days,
     totalPrice |-> total, status |-> "BOOKED"]

\* The marker of an absent status key in a request body.
NoStatus == "undefined"

\* A request body with no keys.
NoBody ==
    [id |-> Undef, carId |-> Undef, customerId |-> Undef,
     startAt |-> Undef, endAt |-> Undef, startDate |-> Undef, endDate |-> Undef,
     pricePerDay |-> Undef, discountPercent |-> Undef, days |-> Undef,
     totalPrice |-> Undef, status |-> NoStatus]

\* { ...old, ...body }: every key present in the body replaces the stored one.
Merge(old, body) ==
    [f \in DOMAIN old |->
        IF f = "status"
        THEN (IF body[f] = NoStatus THEN old[f] ELSE body[f])
        ELSE (IF body[f].k = "undef" THEN old[f] ELSE body[f])]

\* String(r.status || '').toUpperCase()
UpperStatus(s) ==
    CASE s = "canceled"  -> "CANCELED"
      [] s = "completed" -> "COMPLETED"
      [] s = "booked"    -> "BOOKED"
      [] OTHER -> s

startOf(r) == toMs(Coalesce(r.startAt, r.startDate))
endOf(r)   == toMs(Coalesce(r.endAt, r.endDate))

\* ----- The pure functions -----
\* An overlap scan that looks at live reservations only.
hasOverlapLive(list, carId, startAt, endAt, ignoreId) ==
    LET s == toMs(startAt)
        e == toMs(endAt)
    IN  /\ s # NoMs
        /\ e # NoMs
        /\ \E i \in 1..Len(list) :
             LET r == list[i] IN
               /\ r.carId = carId
               /\ UpperStatus(r.status) \notin {"COMPLETED", "CANCELED"}
               /\ ~(Truthy(ignoreId) /\ r.id = ignoreId)
               /\ startOf(r) # NoMs
               /\ endOf(r) # NoMs
               /\ rangeOverlap(s, e, startOf(r), endOf(r))

hasOverlap(list, carId, startAt, endAt, ignoreId) ==
    LET s == toMs(startAt)
        e == toMs(endAt)
    IN  /\ s # NoMs
        /\ e # NoMs
        /\ \E i \in 1..Len(list) :
             LET r == list[i] IN
               /\ r.carId = carId
               /\ ~(Truthy(ignoreId) /\ r.id = ignoreId)
               /\ startOf(r) # NoMs
               /\ endOf(r) # NoMs
               /\ rangeOverlap(s, e, startOf(r), endOf(r))

\* A derivation in which a future reservation outranks one in progress.
computeCarStatusReservedFirst(carId, list, clock) ==
    LET live == { i \in 1..Len(list) :
                    /\ list[i].carId = carId
                    /\ UpperStatus(list[i].status) \notin {"COMPLETED", "CANCELED"}
                    /\ startOf(list[i]) # NoMs
                    /\ endOf(list[i]) # NoMs }
        hasActive == \E i \in live : startOf(list[i]) <= clock /\ clock <= endOf(list[i])
        hasBooked == \E i \in live : startOf(list[i]) > clock
    IN  IF hasBooked THEN "RESERVED" ELSE IF hasActive THEN "IN_USE" ELSE "FREE"

computeCarStatus(carId, list, clock) ==
    LET live == { i \in 1..Len(list) :
                    /\ list[i].carId = carId
                    /\ UpperStatus(list[i].status) \notin {"COMPLETED", "CANCELED"}
                    /\ startOf(list[i]) # NoMs
                    /\ endOf(list[i]) # NoMs }
        hasActive == \E i \in live : startOf(list[i]) <= clock /\ clock <= endOf(list[i])
        hasBooked == \E i \in live : startOf(list[i]) > clock
    IN  IF hasActive THEN "IN_USE" ELSE IF hasBooked THEN "RESERVED" ELSE "FREE"

\* list.findIndex(x => x.id === id); 0 when there is none
findIndex(list, id) ==
    IF \E i \in 1..Len(list) : list[i].id = id
    THEN CHOOSE i \in 1..Len(list) :
           /\ list[i].id = id
           /\ \A j \in 1..(i - 1) : list[j].id # id
    ELSE 0

\* ----- The store and the handlers -----
VARIABLES
    reservations,   \* reservations.json: the stored sequence of reservations
    cars,           \* cars.json: the stored sequence of cars
    now,            \* Date.now()
    nextId,         \* the next nanoid
    response,       \* the response of the last handled request
    events,         \* the side effects of the last handler, in program order
    outbox,         \* Telegram sendMessage calls dispatched and not yet settled
    tgConfigured,   \* TELEGRAM_BOT_TOKEN and TELEGRAM_CHAT_ID are set
    inflight,       \* create requests received and not yet handled
    replies,        \* the replies to the requests of the current race
    served,         \* the number of requests handled so far
    carExpenses,    \* car-expenses.json: the expenses booked on a car
    adminExpenses,  \* admin-expenses.json: the expenses booked on no car
    tzShift,        \* instants by which the process's time zone lags Asia/Baku
    customers       \* customers.json: the stored customers

vars == <<reservations, cars, now, nextId, response, events, outbox,
          tgConfigured, inflight, replies, served, carExpenses, adminExpenses, tzShift,
          customers>>

\* What the reservation handlers never touch.
ledgerVars == <<carExpenses, adminExpenses, tzShift, customers>>

\* Which storage accesses of a handler succeed; AllOk is a working disk.
AllOk == [rRes |-> TRUE, wRes |-> TRUE, rCars |-> TRUE, wCars |-> TRUE]

\* readJsonSafe: the parsed file, or the fallback [] when the read fails
readJsonSafe(file, ok) == IF ok THEN file ELSE <<>>

\* A write that never reaches the file.
writeJsonSafeLost(file, data, ok) == file

\* writeJsonSafe: the file is replaced (tmp + rename), or left as it was when
\* the write fails; the error is logged and swallowed
writeJsonSafe(file, data, ok) == IF ok THEN data ELSE file

\* An update that writes the status into every car.
withStatusEverywhere(carList, carId, status) ==
    [i \in 1..Len(carList) |-> [carList[i] EXCEPT !.status = status]]

\* cars[ci] = { ...cars[ci], status } for the car with this id, if there is one
withStatus(carList, carId, status) ==
    [i \in 1..Len(carList) |->
        IF i = findIndex(carList, carId)
        THEN [carList[i] EXCEPT !.status = status]
        ELSE carList[i]]

Reply(op, code, item) == [op |-> op, code |-> code, item |-> item, overlap |-> FALSE, args |-> <<>>]

\* What a handler leaves behind: the two files, the response, its side effects
\* in program order, and whether it consumed an id and dispatched a message.
Outcome(res, carFile, resp, evs, usedId, sent) ==
    [reservations |-> res, cars |-> carFile, response |-> resp, events |-> evs,
     usedId |-> usedId, sent |-> sent]

\* The notification dispatched before anything is persisted.
createEffectsNotifyFirst(hasCar, configured) ==
    (IF configured THEN <<"sendTelegram">> ELSE <<>>)
      \o <<"writeReservations">>
      \o (IF hasCar THEN <<"writeCars">> ELSE <<>>)
      \o <<"respond">>

\* The side effects of a successful create, in program order: the reservations
\* write, the cars write when the car exists, the Telegram fetch when the bot
\* is configured (the async block runs up to its first await), the response.
createEffects(hasCar, configured) ==
    <<"writeReservations">>
      \o (IF hasCar THEN <<"writeCars">> ELSE <<>>)
      \o (IF configured THEN <<"sendTelegram">> ELSE <<>>)
      \o <<"respond">>

\* A validation that looks at the car and the dates only.
missingFieldsNoCustomer(body) ==
    ~Truthy(body.carId) \/ ~Truthy(body.startAt) \/ ~Truthy(body.endAt)

\* !carId || !customerId || !startAt || !endAt
missingFields(body) ==
    ~Truthy(body.carId) \/ ~Truthy(body.customerId)
      \/ ~Truthy(body.startAt) \/ ~Truthy(body.endAt)

\* A base price that is never looked up.
basePriceIgnored(carList, ci) == Num(0)

\* car?.basePricePerDay ?? 0, where car = cars.find(...) || {}
basePriceOf(carList, ci) == IF ci > 0 THEN carList[ci].basePricePerDay ELSE Num(0)

\* app.post('/api/reservations')
createReservation(body, io, resFile, carFile, clock, id, configured) ==
    LET list    == readJsonSafe(resFile, io.rRes)
        carList == readJsonSafe(carFile, io.rCars)
        ci      == findIndex(carList, body.carId)
        unit    == ToNumber(Coalesce(body.pricePerDay, basePriceOf(carList, ci)))
        disc    == IF Truthy(body.discountPercent) THEN ToNumber(body.discountPercent) ELSE Num(0)
        days    == daysBetweenInclusive(body.startAt, body.endAt, clock)
        item    == Reservation(Str(id), body.carId, body.customerId, body.startAt,
                               body.endAt, unit, disc, days, totalPriceOf(unit, days, disc))
        pushed  == Append(list, item)
        status  == computeCarStatus(body.carId, pushed, clock)
        newCars == withStatus(carList, body.carId, status)
    IN  IF missingFields(body)
        THEN Outcome(resFile, carFile, Reply("create", 400, <<>>), <<"respond">>, FALSE, FALSE)
        ELSE IF hasOverlap(list, body.carId, body.startAt, body.endAt, Null)
        THEN Outcome(resFile, carFile, Reply("create", 409, <<>>), <<"respond">>, FALSE, FALSE)
        ELSE IF days = Throws
        THEN Outcome(resFile, carFile, Reply("create", 500, <<>>), <<"respond">>, FALSE, FALSE)
        ELSE Outcome(writeJsonSafe(resFile, pushed, io.wRes),
                     IF ci > 0 THEN writeJsonSafe(carFile, newCars, io.wCars) ELSE carFile,
                     Reply("create", 201, <<item>>),
                     createEffects(ci > 0, configured),
                     TRUE, configured)

\* app.patch('/api/reservations/:id')
patchReservation(id, body, io, resFile, carFile, clock) ==
    LET list    == readJsonSafe(resFile, io.rRes)
        i       == findIndex(list, id)
        merged  == Merge(list[i], body)
        changedDates == Truthy(body.startAt) \/ Truthy(body.endAt) \/ Truthy(body.carId)
        days    == daysBetweenInclusive(merged.startAt, merged.endAt, clock)
        unit    == ToNumber(Coalesce(merged.pricePerDay, Num(0)))
        disc    == IF Truthy(merged.discountPercent)
                   THEN ToNumber(merged.discountPercent) ELSE Num(0)
        next    == IF changedDates
                   THEN [merged EXCEPT !.days = days,
                                       !.totalPrice = totalPriceOf(unit, days, disc)]
                   ELSE merged
        newList == [list EXCEPT ![i] = next]
        carList == readJsonSafe(carFile, io.rCars)
        ci      == findIndex(carList, next.carId)
        status  == computeCarStatus(next.carId, newList, clock)
        newCars == withStatus(carList, next.carId, status)
    IN  IF i = 0
        THEN Outcome(resFile, carFile, Reply("patch", 404, <<>>), <<"respond">>, FALSE, FALSE)
        ELSE IF changedDates
                /\ hasOverlap(list, merged.carId, merged.startAt, merged.endAt, merged.id)
        THEN Outcome(resFile, carFile, Reply("patch", 409, <<>>), <<"respond">>, FALSE, FALSE)
        ELSE IF changedDates /\ days = Throws
        THEN Outcome(resFile, carFile, Reply("patch", 500, <<>>), <<"respond">>, FALSE, FALSE)
        ELSE Outcome(writeJsonSafe(resFile, newList, io.wRes),
                     IF ci > 0 THEN writeJsonSafe(carFile, newCars, io.wCars) ELSE carFile,
                     Reply("patch", 200, <<next>>),
                     <<"writeReservations">>
                       \o (IF ci > 0 THEN <<"writeCars">> ELSE <<>>)
                       \o <<"respond">>,
                     FALSE, FALSE)

\* list.splice(i, 1)
splice(list, i) == [j \in 1..(Len(list) - 1) |-> IF j < i THEN list[j] ELSE list[j + 1]]

\* app.delete('/api/reservations/:id')
deleteReservation(id, io, resFile, carFile, clock) ==
    LET list    == readJsonSafe(resFile, io.rRes)
        i       == findIndex(list, id)
        removed == list[i]
        newList == splice(list, i)
        carList == readJsonSafe(carFile, io.rCars)
        ci      == findIndex(carList, removed.carId)
        status  == computeCarStatus(removed.carId, newList, clock)
        newCars == withStatus(carList, removed.carId, status)
    IN  IF i = 0
        THEN Outcome(resFile, carFile, Reply("delete", 404, <<>>), <<"respond">>, FALSE, FALSE)
        ELSE Outcome(writeJsonSafe(resFile, newList, io.wRes),
                     IF ci > 0 THEN writeJsonSafe(carFile, newCars, io.wCars) ELSE carFile,
                     Reply("delete", 200, <<removed>>),
                     <<"writeReservations">>
                       \o (IF ci > 0 THEN <<"writeCars">> ELSE <<>>)
                       \o <<"respond">>,
                     FALSE, FALSE)

\* app.get / app.post('/api/reservations/check'): { overlap }
checkReservation(q, io, resFile) ==
    LET list == readJsonSafe(resFile, io.rRes)
    IN  [op |-> "check", code |-> 200, item |-> <<>>,
         overlap |-> hasOverlap(list, StringOrEmpty(q.carId), q.startAt, q.endAt,
                                IF Truthy(q.ignoreId) THEN q.ignoreId ELSE Null),
         args |-> <<q.carId, q.startAt, q.endAt, q.ignoreId>>]

\* ----- Requests a client can send -----
Car(id, base) == [id |-> Str(id), basePricePerDay |-> Num(base), status |-> "FREE"]

CreateBody(carId, customerId, startAt, endAt) ==
    [NoBody EXCEPT !.carId = carId, !.customerId = customerId,
                   !.startAt = startAt, !.endAt = endAt]

\* Intervals of one instant, of two instants, and the whole range.
Intervals ==
    { <<t, t>> : t \in Instants } \cup { <<t, t + 1>> : t \in 0..(MaxT - 1) } \cup { <<0, MaxT>> }

\* Well-formed creates for the two cars, one with the customer missing and one
\* with the number 0 as its start.
CreateBodies ==
    { CreateBody(c, Str(1), Iso(iv[1]), Iso(iv[2])) : c \in {Str(1), Str(2)}, iv \in Intervals }
      \cup { CreateBody(Str(1), Undef, Iso(0), Iso(0)),
             CreateBody(Str(1), Str(1), Num(0), Iso(0)) }

PatchBodies ==
    { [NoBody EXCEPT !.status = st] : st \in {"BOOKED", "COMPLETED", "CANCELED"} }
      \cup { [NoBody EXCEPT !.startAt = x] : x \in {Iso(0), Num(0), Empty} }
      \cup { [NoBody EXCEPT !.endAt = Iso(MaxT)] }
      \cup { [NoBody EXCEPT !.carId = c] : c \in {Str(1), Str(2)} }

\* req.params.id is a string: an id that was issued, or the next one, which was not
IdInputs == { Str(n) : n \in 1..nextId }

\* ----- Actions -----
Commit(o) ==
    /\ served < MaxRequests
    /\ served' = served + 1
    /\ reservations' = o.reservations
    /\ cars' = o.cars
    /\ response' = o.response
    /\ events' = o.events
    /\ nextId' = IF o.usedId THEN nextId + 1 ELSE nextId
    /\ outbox' = IF o.sent THEN outbox \cup {nextId} ELSE outbox
    /\ UNCHANGED ledgerVars

Create(body, io) ==
    /\ Commit(createReservation(body, io, reservations, cars, now, nextId, tgConfigured))
    /\ UNCHANGED <<now, tgConfigured, inflight, replies>>

Patch(id, body, io) ==
    /\ Commit(patchReservation(id, body, io, reservations, cars, now))
    /\ UNCHANGED <<now, tgConfigured, inflight, replies>>

Delete(id, io) ==
    /\ Commit(deleteReservation(id, io, reservations, cars, now))
    /\ UNCHANGED <<now, tgConfigured, inflight, replies>>

\* Time passes.
Tick ==
    /\ now < MaxT
    /\ now' = now + 1
    /\ UNCHANGED <<reservations, cars, nextId, response, events, outbox,
                   tgConfigured, inflight, replies, served,
                   carExpenses, adminExpenses, tzShift, customers>>

NoReply == [op |-> "none", code |-> 0, item |-> <<>>, overlap |-> FALSE, args |-> <<>>]

InitStore ==
    /\ reservations = <<>>
    /\ cars = <<Car(1, 2), Car(2, 2)>>
    /\ now = 0
    /\ nextId = 1
    /\ response = NoReply
    /\ events = <<>>
    /\ outbox = {}
    /\ inflight = <<>>
    /\ replies = <<>>
    /\ served = 0

\* Empty ledgers, the process running in the time zone of DEFAULT_TZ.
NoLedger ==
    /\ carExpenses = <<>>
    /\ adminExpenses = <<>>
    /\ tzShift = 0
    /\ customers = <<[id |-> Str(1)]>>

\* Requests handled one after another on a working disk, Telegram not configured.
Init == InitStore /\ tgConfigured = FALSE /\ NoLedger

Next ==
    \/ Tick
    \/ \E b \in CreateBodies : Create(b, AllOk)
    \/ \E id \in IdInputs, b \in PatchBodies : Patch(id, b, AllOk)
    \/ \E id \in IdInputs : Delete(id, AllOk)

Spec == Init /\ [][Next]_vars

\* ----- The availability check -----
CheckQuery(carId, startAt, endAt, ignoreId) ==
    [carId |-> carId, startAt |-> startAt, endAt |-> endAt, ignoreId |-> ignoreId]

\* A query string carries strings only; a JSON body carries any value.
CheckGetQueries ==
    { CheckQuery(c, Iso(t), Iso(t), g) : c \in {Str(1), Undef}, t \in Instants, g \in {Undef, Str(1)} }
CheckPostBodies ==
    { CheckQuery(c, Iso(t), Iso(t), Undef) : c \in {Str(1), Num(1)}, t \in Instants }

\* Creates whose car id is a string, and creates whose car id is a number.
CheckCreateBodies ==
    { CreateBody(c, Str(1), Iso(t), Iso(t)) : c \in {Str(1), Num(1)}, t \in Instants }

\* A check that also stores a hold for the interval it was asked about.
CheckHolding(q, io) ==
    /\ served < MaxRequests
    /\ served' = served + 1
    /\ response' = checkReservation(q, io, reservations)
    /\ events' = <<"writeReservations", "respond">>
    /\ reservations' = Append(reservations,
                              Reservation(Str(0), q.carId, Str(0), q.startAt, q.endAt,
                                          Num(0), Num(0), Num(1), Num(0)))
    /\ UNCHANGED <<cars, now, nextId, outbox, tgConfigured, inflight, replies,
                   carExpenses, adminExpenses, tzShift, customers>>

Check(q, io) ==
    /\ served < MaxRequests
    /\ served' = served + 1
    /\ response' = checkReservation(q, io, reservations)
    /\ events' = <<"respond">>
    /\ UNCHANGED <<reservations, cars, now, nextId, outbox, tgConfigured, inflight, replies,
                   carExpenses, adminExpenses, tzShift, customers>>

NextCheck ==
    \/ \E b \in CheckCreateBodies : Create(b, AllOk)
    \/ \E q \in CheckGetQueries : Check(q, AllOk)
    \/ \E q \in CheckPostBodies : Check(q, AllOk)
    \/ \E id \in IdInputs : Delete(id, AllOk)

\* Checks, creates and deletes handled one after another.
SpecCheck == Init /\ [][NextCheck]_vars

\* ----- Concurrent creates -----
\* The creates that pass validation.
RaceBodies ==
    { CreateBody(c, Str(1), Iso(iv[1]), Iso(iv[2])) : c \in {Str(1), Str(2)}, iv \in Intervals }

Quiet == inflight = <<>> /\ replies = <<>>

\* A create request reaches the server while others wait to be handled.
Arrive(b) ==
    /\ replies = <<>>
    /\ Len(inflight) < MaxInflight
    /\ served + Len(inflight) < MaxRequests
    /\ inflight' = Append(inflight, b)
    /\ UNCHANGED <<reservations, cars, now, nextId, response, events, outbox,
                   tgConfigured, replies, served,
                   carExpenses, adminExpenses, tzShift, customers>>

\* Node picks one waiting request and runs its handler to completion.
Handle(k) ==
    /\ Commit(createReservation(inflight[k], AllOk, reservations, cars, now, nextId, tgConfigured))
    /\ inflight' = splice(inflight, k)
    /\ replies' = Append(replies, [req |-> inflight[k], code |-> response'.code])
    /\ UNCHANGED <<now, tgConfigured>>

\* The clients have their replies.
Settle ==
    /\ inflight = <<>>
    /\ replies # <<>>
    /\ replies' = <<>>
    /\ UNCHANGED <<reservations, cars, now, nextId, response, events, outbox,
                   tgConfigured, inflight, served,
                   carExpenses, adminExpenses, tzShift, customers>>

NextRace ==
    \/ \E b \in RaceBodies : Arrive(b)
    \/ \E k \in 1..Len(inflight) : Handle(k)
    \/ Settle
    \/ Quiet /\ \E b \in RaceBodies : Create(b, AllOk)
    \/ Quiet /\ \E id \in IdInputs : Delete(id, AllOk)

\* Creates that wait in flight together and are handled in any order, between
\* requests handled one after another.
SpecRace == Init /\ [][NextRace]_vars

\* ----- Storage failures -----
\* A working disk, or one storage access of the handler failing.
IOOutcomes ==
    { AllOk, [AllOk EXCEPT !.rRes = FALSE], [AllOk EXCEPT !.wRes = FALSE],
      [AllOk EXCEPT !.rCars = FALSE], [AllOk EXCEPT !.wCars = FALSE] }

IOCreateBodies ==
    { CreateBody(c, Str(1), Iso(t), Iso(t)) : c \in {Str(1), Str(2)}, t \in Instants }

IOPatchBodies ==
    { [NoBody EXCEPT !.status = "CANCELED"], [NoBody EXCEPT !.endAt = Iso(MaxT)],
      [NoBody EXCEPT !.carId = Str(2)] }

NextIO ==
    \/ \E b \in IOCreateBodies, io \in IOOutcomes : Create(b, io)
    \/ \E id \in IdInputs, b \in IOPatchBodies, io \in IOOutcomes : Patch(id, b, io)
    \/ \E id \in IdInputs, io \in IOOutcomes : Delete(id, io)

\* Requests handled one after another on a disk whose reads and writes can fail.
SpecIO == Init /\ [][NextIO]_vars

\* ----- The Telegram notifier -----
\* fetch resolves and res.text() is read: sendTelegram returns.
TelegramDelivered(n) ==
    /\ n \in outbox
    /\ outbox' = outbox \ {n}
    /\ events' = <<"telegramDelivered">>
    /\ UNCHANGED <<reservations, cars, now, nextId, response, tgConfigured,
                   inflight, replies, served,
                   carExpenses, adminExpenses, tzShift, customers>>

\* fetch rejects: sendTelegram logs the error and swallows it.
TelegramFailed(n) ==
    /\ n \in outbox
    /\ outbox' = outbox \ {n}
    /\ events' = <<"telegramError">>
    /\ UNCHANGED <<reservations, cars, now, nextId, response, tgConfigured,
                   inflight, replies, served,
                   carExpenses, adminExpenses, tzShift, customers>>

NotifyCreateBodies ==
    IOCreateBodies \cup { CreateBody(Str(1), Undef, Iso(0), Iso(0)) }

NotifyPatchBodies ==
    { [NoBody EXCEPT !.status = "CANCELED"], [NoBody EXCEPT !.endAt = Iso(MaxT)] }

\* A fetch that never settles takes no step: its id stays in the outbox.
NextNotify ==
    \/ Tick
    \/ \E b \in NotifyCreateBodies : Create(b, AllOk)
    \/ \E id \in IdInputs, b \in NotifyPatchBodies : Patch(id, b, AllOk)
    \/ \E id \in IdInputs : Delete(id, AllOk)
    \/ \E n \in outbox : TelegramDelivered(n)
    \/ \E n \in outbox : TelegramFailed(n)

\* Requests handled one after another, the bot configured or not.
InitNotify == InitStore /\ tgConfigured \in BOOLEAN /\ NoLedger
SpecNotify == InitNotify /\ [][NextNotify]_vars

\* ----- The overlap scan -----
ScanPatchBodies ==
    { [NoBody EXCEPT !.status = "CANCELED"], [NoBody EXCEPT !.status = "COMPLETED"],
      [NoBody EXCEPT !.startAt = Empty] }

\* Checks for either car over every interval, with and without an id to
\* ignore, and two checks whose start or end is no date.
ScanQueries ==
    { CheckQuery(c, Iso(iv[1]), Iso(iv[2]), g) :
        c \in {Str(1), Str(2)}, iv \in Intervals, g \in {Undef, Str(1)} }
      \cup { CheckQuery(Str(1), Empty, Iso(0), Undef), CheckQuery(Str(1), Iso(0), Bad, Undef) }

NextScan ==
    \/ \E b \in RaceBodies : Create(b, AllOk)
    \/ \E id \in IdInputs, b \in ScanPatchBodies : Patch(id, b, AllOk)
    \/ \E q \in ScanQueries : Check(q, AllOk)

\* Creates, amends of the status or the start, and availability checks.
SpecScan == Init /\ [][NextScan]_vars

\* ----- Pricing -----
\* The largest unit price a request names, the last calendar day it names, and
\* the number of requests handled in a pricing run.
MaxPrice == 3
MaxDay == 2
PriceDepth == 2

\* The first instant of each day, and one instant inside the first day.
PriceInstants == { d * TicksPerDay : d \in 0..MaxDay } \cup { 1 }

\* Creates for car 1 that name a unit price and a discount, over every pair of
\* instants (end before start included).
PriceBodies ==
    { [CreateBody(Str(1), Str(1), Iso(s), Iso(e))
         EXCEPT !.pricePerDay = Num(u), !.discountPercent = Num(disc)] :
        s \in PriceInstants, e \in PriceInstants, u \in {0, 1, MaxPrice}, disc \in {0, 50, 90, 100} }

\* Creates that name no unit price and no discount.
BaseBodies ==
    { CreateBody(c, Str(1), Iso(iv[1]), Iso(iv[2])) :
        c \in {Str(1), Str(2)},
        iv \in { p \in PriceInstants \X PriceInstants : p[1] <= p[2] } }

\* Amends that move the end and name a discount or a unit price.
PricePatchBodies ==
    { [NoBody EXCEPT !.endAt = Iso(e), !.discountPercent = Num(disc)] :
        e \in PriceInstants, disc \in {0, 50} }
      \cup { [NoBody EXCEPT !.endAt = Iso(e), !.pricePerDay = Num(MaxPrice)] : e \in PriceInstants }

NextPrice ==
    \/ served < PriceDepth /\ \E b \in PriceBodies : Create(b, AllOk)
    \/ served < PriceDepth /\ \E b \in BaseBodies : Create(b, AllOk)
    \/ served < PriceDepth /\ \E id \in IdInputs, b \in PricePatchBodies : Patch(id, b, AllOk)

\* Two cars with different base prices, nothing reserved.
InitPrice ==
    /\ reservations = <<>>
    /\ cars = <<Car(1, 1), Car(2, MaxPrice)>>
    /\ now = 0
    /\ nextId = 1
    /\ response = NoReply
    /\ events = <<>>
    /\ outbox = {}
    /\ tgConfigured = FALSE
    /\ inflight = <<>>
    /\ replies = <<>>
    /\ served = 0
    /\ NoLedger

SpecPrice == InitPrice /\ [][NextPrice]_vars

\* ----- Month windows, the expense ledgers and the revenue report -----
\* Instants per calendar month, the last month a request names, and the
\* largest lag of the process's time zone behind Asia/Baku.
TicksPerMonth == 2
MaxMonth == 2
MaxShift == 1

\* Calendar months per year.
MonthsPerYear == 2

\* A token of four digits, a dash and two digits: year y, month number m. The
\* two digits can be any number, 00 and numbers past the last month included.
Ym(y, m) == [k |-> "ym", v |-> 0, y |-> y, m |-> m]

\* A month token is Num(m) for a well-formed YYYY-MM naming month m, Ym(y, m)
\* for any text that /^\d{4}-\d{2}$/ matches, and anything else for an absent
\* token or one the pattern rejects, which means the current month.
\* new Date(y, m - 1, 1) carries a month outside the year into a neighbouring year.
\* start = dayjs.tz(new Date(y, m-1, 1)).startOf('month'), end = start.endOf('month'):
\* no zone is passed and no default zone is set, so both are taken in the
\* process's local zone, whose months begin shift instants after Baku's.
monthWindow(month, clock, shift) ==
    LET m == CASE month.k = "num" -> month.v
               [] month.k = "ym"  -> month.y * MonthsPerYear + (month.m - 1)
               [] OTHER -> (clock - shift) \div TicksPerMonth
    IN  [start |-> m * TicksPerMonth + shift, end |-> (m + 1) * TicksPerMonth - 1 + shift]

\* A ledger entry (title, payee, purpose and updatedAt carry no behaviour).
Expense(id, carId, amount, when, createdAt) ==
    [id |-> id, carId |-> carId, amount |-> amount, when |-> when, createdAt |-> createdAt]

\* x.when || x.createdAt
whenOf(x) == IF Truthy(x.when) THEN x.when ELSE x.createdAt

\* t && t.isAfter(start - 1ms) && t.isBefore(end + 1ms), t = dayjs.tz(when, DEFAULT_TZ)
inWindow(x, w) ==
    /\ Truthy(whenOf(x))
    /\ w.start <= whenOf(x).v
    /\ whenOf(x).v <= w.end

\* Number(x || 0)
NumberOrZero(x) == IF Truthy(x) THEN ToNumber(x) ELSE Num(0)

\* items.reduce((s, x) => s + Number(x[field] || 0), 0)
RECURSIVE sumOf(_, _)
sumOf(items, field) ==
    IF items = <<>> THEN Num(0)
    ELSE LET rest == sumOf(Tail(items), field)
             x    == NumberOrZero(Head(items)[field])
         IN  IF rest = NaN \/ x = NaN THEN NaN ELSE Num(rest.v + x.v)

\* res.json({ items, total, count })
Report(op, items, field) ==
    [op |-> op, code |-> 200, item |-> items, overlap |-> FALSE,
     args |-> <<sumOf(items, field), Len(items)>>]

\* app.get('/api/admin-expenses')
getAdminExpenses(month, list, clock, shift) ==
    LET w == monthWindow(month, clock, shift)
    IN  Report("adminExpenses", SelectSeq(list, LAMBDA x : inWindow(x, w)), "amount")

\* app.get('/api/car-expenses')
getCarExpenses(month, carId, list, clock, shift) ==
    LET w == monthWindow(month, clock, shift)
        c == StringOrEmpty(carId)
    IN  Report("carExpenses",
               SelectSeq(list, LAMBDA x : (Truthy(c) => x.carId = c) /\ inWindow(x, w)),
               "amount")

\* The item of app.post('/api/admin-expenses') and app.post('/api/car-expenses')
newExpense(body, carId, clock, id) ==
    Expense(Str(id), carId, NumberOrZero(body.amount),
            IF Truthy(body.when) THEN body.when ELSE Iso(clock), Iso(clock))

\* r.startAt || r.startDate and r.endAt || r.endDate, through toMs
revenueStart(r) == toMs(IF Truthy(r.startAt) THEN r.startAt ELSE r.startDate)
revenueEnd(r)   == toMs(IF Truthy(r.endAt) THEN r.endAt ELSE r.endDate)

\* app.get('/api/revenue')
getRevenue(month, resFile, clock, shift) ==
    LET w == monthWindow(month, clock, shift)
    IN  Report("revenue",
               SelectSeq(resFile, LAMBDA r : /\ revenueStart(r) # NoMs
                                             /\ revenueEnd(r) # NoMs
                                             /\ ~(revenueEnd(r) < w.start \/ revenueStart(r) > w.end)),
               "totalPrice")

\* Reads and posts leave the reservation store alone.
Served(resp, usedId) ==
    /\ served < MaxRequests
    /\ served' = served + 1
    /\ response' = resp
    /\ events' = <<"respond">>
    /\ nextId' = IF usedId THEN nextId + 1 ELSE nextId
    /\ UNCHANGED <<reservations, cars, now, outbox, tgConfigured, inflight, replies, tzShift,
                   customers>>

PostAdminExpense(body) ==
    /\ IF Truthy(body.carId)
       THEN Served(Reply("postAdminExpense", 400, <<>>), FALSE) /\ UNCHANGED adminExpenses
       ELSE LET item == newExpense(body, Undef, now, nextId)
            IN  /\ Served(Reply("postAdminExpense", 201, <<item>>), TRUE)
                /\ adminExpenses' = Append(adminExpenses, item)
    /\ UNCHANGED carExpenses

PostCarExpense(body) ==
    /\ IF ~Truthy(StringOrEmpty(body.carId))
       THEN Served(Reply("postCarExpense", 400, <<>>), FALSE) /\ UNCHANGED carExpenses
       ELSE LET item == newExpense(body, StringOrEmpty(body.carId), now, nextId)
            IN  /\ Served(Reply("postCarExpense", 201, <<item>>), TRUE)
                /\ carExpenses' = Append(carExpenses, item)
    /\ UNCHANGED adminExpenses

GetAdminExpenses(month) ==
    /\ Served(getAdminExpenses(month, adminExpenses, now, tzShift), FALSE)
    /\ UNCHANGED <<carExpenses, adminExpenses>>

GetCarExpenses(month, carId) ==
    /\ Served(getCarExpenses(month, carId, carExpenses, now, tzShift), FALSE)
    /\ UNCHANGED <<carExpenses, adminExpenses>>

GetRevenue(month) ==
    /\ Served(getRevenue(month, reservations, now, tzShift), FALSE)
    /\ UNCHANGED <<carExpenses, adminExpenses>>

\* The instants of the months a request can name.
LedgerInstants == 0..((MaxMonth + 1) * TicksPerMonth - 1)

ExpenseBody(carId, amount, when) == [carId |-> carId, amount |-> amount, when |-> when]

\* Expenses dated at every instant, and a post without the car id.
CarExpenseBodies ==
    { ExpenseBody(c, Num(a), Iso(t)) : c \in {Str(1), Str(2)}, a \in {1, 2}, t \in LedgerInstants }
      \cup { ExpenseBody(Undef, Num(1), Iso(0)) }

\* Expenses dated at every instant, and a post that names a car.
AdminExpenseBodies ==
    { ExpenseBody(Undef, Num(1), Iso(t)) : t \in LedgerInstants }
      \cup { ExpenseBody(Str(1), Num(1), Iso(0)) }

\* ?month=YYYY-MM for each month, and no month at all.
MonthTokens == { Num(m) : m \in 0..MaxMonth } \cup { Undef }

\* Empty stores; the process runs in Asia/Baku or in a zone behind it.
InitLedger ==
    /\ InitStore
    /\ tgConfigured = FALSE
    /\ carExpenses = <<>>
    /\ adminExpenses = <<>>
    /\ tzShift \in 0..MaxShift
    /\ customers = <<[id |-> Str(1)]>>

NextLedger ==
    \/ \E b \in CarExpenseBodies : PostCarExpense(b)
    \/ \E b \in AdminExpenseBodies : PostAdminExpense(b)
    \/ \E m \in MonthTokens : GetAdminExpenses(m)
    \/ \E m \in MonthTokens, c \in {Undef, Str(1)} : GetCarExpenses(m, c)

\* Expenses posted and month queries answered one after another.
SpecLedger == InitLedger /\ [][NextLedger]_vars

RevenuePatchBodies ==
    { [NoBody EXCEPT !.startAt = Num(0)], [NoBody EXCEPT !.status = "CANCELED"] }

NextRevenue ==
    \/ \E b \in RaceBodies : Create(b, AllOk)
    \/ \E id \in IdInputs, b \in RevenuePatchBodies : Patch(id, b, AllOk)
    \/ \E m \in MonthTokens : GetRevenue(m)

\* Creates, amends and revenue reports handled one after another.
SpecRevenue == InitLedger /\ [][NextRevenue]_vars

\* ----- Amends of the price -----
\* Amends that name only the discount, only the unit price, or only the end.
AmendBodies ==
    { [NoBody EXCEPT !.discountPercent = Num(50)], [NoBody EXCEPT !.pricePerDay = Num(MaxPrice)] }
      \cup { [NoBody EXCEPT !.endAt = Iso(e)] : e \in PriceInstants }

NextAmend ==
    \/ served < PriceDepth /\ \E b \in BaseBodies : Create(b, AllOk)
    \/ served < PriceDepth /\ \E id \in IdInputs, b \in AmendBodies : Patch(id, b, AllOk)

\* Creates at the base price followed by amends of one field.
SpecAmend == InitPrice /\ [][NextAmend]_vars

\* ----- Month tokens -----
\* Every two-digit month number for the years the ledger covers, from 00 to one
\* past the last month; a token the pattern rejects; and no token.
YmTokens ==
    { Ym(y, m) : y \in 0..(MaxMonth \div MonthsPerYear), m \in 0..(MonthsPerYear + 1) }
      \cup { Bad, Undef }

NextMonth ==
    \/ \E b \in AdminExpenseBodies : PostAdminExpense(b)
    \/ \E m \in YmTokens : GetAdminExpenses(m)
    \/ \E m \in YmTokens : GetRevenue(m)
    \/ \E b \in IOCreateBodies : Create(b, AllOk)

\* Expenses and reservations stored, and month queries with any token.
SpecMonth == InitLedger /\ [][NextMonth]_vars

\* ----- Edits of the expense ledgers -----
\* { ...old, ...body } for a ledger entry: every key of the body replaces the stored one.
mergeExpense(old, body) ==
    [f \in DOMAIN old |->
        IF f \in DOMAIN body /\ body[f].k # "undef" THEN body[f] ELSE old[f]]

\* app.patch('/api/admin-expenses/:id'): a carId in the body is deleted first
patchAdminExpense(id, body, list) ==
    LET i == findIndex(list, id)
    IN  IF i = 0 THEN list
        ELSE [list EXCEPT ![i] = mergeExpense(list[i], [body EXCEPT !.carId = Undef])]

\* app.patch('/api/car-expenses/:id'): a truthy carId is stored as a string,
\* and then the whole body, its carId included, is spread over the entry
patchCarExpense(id, body, list) ==
    LET i == findIndex(list, id)
        stringed == IF Truthy(body.carId)
                    THEN [list[i] EXCEPT !.carId = StringOrEmpty(body.carId)]
                    ELSE list[i]
    IN  IF i = 0 THEN list
        ELSE [list EXCEPT ![i] = mergeExpense(stringed, body)]

\* The response of a ledger patch or delete.
ledgerReply(op, id, list) ==
    IF findIndex(list, id) = 0 THEN Reply(op, 404, <<>>) ELSE Reply(op, 200, <<>>)

PatchAdminExpense(id, body) ==
    /\ Served(ledgerReply("patchAdminExpense", id, adminExpenses), FALSE)
    /\ adminExpenses' = patchAdminExpense(id, body, adminExpenses)
    /\ UNCHANGED carExpenses

PatchCarExpense(id, body) ==
    /\ Served(ledgerReply("patchCarExpense", id, carExpenses), FALSE)
    /\ carExpenses' = patchCarExpense(id, body, carExpenses)
    /\ UNCHANGED adminExpenses

\* app.delete('/api/admin-expenses/:id')
DeleteAdminExpense(id) ==
    /\ Served(ledgerReply("deleteAdminExpense", id, adminExpenses), FALSE)
    /\ adminExpenses' = IF findIndex(adminExpenses, id) = 0 THEN adminExpenses
                        ELSE splice(adminExpenses, findIndex(adminExpenses, id))
    /\ UNCHANGED carExpenses

\* app.delete('/api/car-expenses/:id')
DeleteCarExpense(id) ==
    /\ Served(ledgerReply("deleteCarExpense", id, carExpenses), FALSE)
    /\ carExpenses' = IF findIndex(carExpenses, id) = 0 THEN carExpenses
                      ELSE splice(carExpenses, findIndex(carExpenses, id))
    /\ UNCHANGED adminExpenses

\* Posts with a car id, without one, and with the empty string as car id.
EditPostBodies == { ExpenseBody(c, Num(1), Iso(0)) : c \in {Str(1), Undef, Empty} }

\* Patches of the amount, and patches that name a car id or the empty string.
EditPatchBodies ==
    { ExpenseBody(c, a, Undef) : c \in {Undef, Str(2), Empty}, a \in {Undef, Num(2)} }

NextEdit ==
    \/ \E b \in EditPostBodies : PostCarExpense(b)
    \/ \E b \in EditPostBodies : PostAdminExpense(b)
    \/ \E id \in IdInputs, b \in EditPatchBodies : PatchCarExpense(id, b)
    \/ \E id \in IdInputs, b \in EditPatchBodies : PatchAdminExpense(id, b)
    \/ \E id \in IdInputs : DeleteCarExpense(id)
    \/ \E id \in IdInputs : DeleteAdminExpense(id)

\* Posts, patches and deletes on the two ledgers.
SpecEdit == Init /\ [][NextEdit]_vars

\* ----- Cars -----
\* The body of a car post or patch: a base price and a status, either absent.
CarBody(base, status) == [basePricePerDay |-> base, status |-> status]

\* app.post('/api/cars'): status: req.body.status || 'FREE'; the nanoid is an
\* id no stored car has (cars are never deleted here, so the next number)
postCar(body, carList, id) ==
    Append(carList,
           [id |-> Str(id),
            basePricePerDay |-> ToNumber(Coalesce(body.basePricePerDay, Num(0))),
            status |-> IF body.status \in {NoStatus, ""} THEN "FREE" ELSE body.status])

\* app.patch('/api/cars/:id'): { ...list[i], ...req.body }
patchCar(id, body, carList) ==
    LET i == findIndex(carList, id)
    IN  IF i = 0 THEN carList
        ELSE [carList EXCEPT ![i] =
                [id |-> @.id,
                 basePricePerDay |-> IF body.basePricePerDay.k = "undef"
                                     THEN @.basePricePerDay ELSE body.basePricePerDay,
                 status |-> IF body.status = NoStatus THEN @.status ELSE body.status]]

PostCar(body) ==
    /\ served < MaxRequests
    /\ served' = served + 1
    /\ cars' = postCar(body, cars, Len(cars) + 1)
    /\ response' = Reply("postCar", 201, <<cars'[Len(cars')]>>)
    /\ events' = <<"writeCars", "respond">>
    /\ UNCHANGED <<reservations, now, nextId, outbox, tgConfigured, inflight, replies>>
    /\ UNCHANGED ledgerVars

PatchCar(id, body) ==
    /\ served < MaxRequests
    /\ served' = served + 1
    /\ cars' = patchCar(id, body, cars)
    /\ response' = IF findIndex(cars, id) = 0 THEN Reply("patchCar", 404, <<>>)
                   ELSE Reply("patchCar", 200, <<cars'[findIndex(cars, id)]>>)
    /\ events' = IF findIndex(cars, id) = 0 THEN <<"respond">> ELSE <<"writeCars", "respond">>
    /\ UNCHANGED <<reservations, now, nextId, outbox, tgConfigured, inflight, replies>>
    /\ UNCHANGED ledgerVars

\* Bodies without a status, with a derived status value and with another word.
CarBodies ==
    { CarBody(b, st) : b \in {Undef, Num(1)}, st \in {NoStatus, "IN_USE", "BROKEN"} }

NextCars ==
    \/ \E b \in CarBodies : PostCar(b)
    \/ \E id \in IdInputs, b \in CarBodies : PatchCar(id, b)
    \/ \E b \in IOCreateBodies : Create(b, AllOk)
    \/ \E id \in IdInputs : Delete(id, AllOk)

\* Cars posted and patched between reservation creates and deletes.
SpecCars == Init /\ [][NextCars]_vars

\* ----- Input validation -----
ValidBodies ==
    { CreateBody(c, Str(1), Iso(t), Iso(t)) : c \in {Str(1), Str(2)}, t \in Instants }

\* A valid body with one of the four required keys absent or null.
MissingBodies ==
    { [b EXCEPT ![f] = x] : b \in { CreateBody(Str(1), Str(1), Iso(t), Iso(t)) : t \in Instants },
                            f \in {"carId", "customerId", "startAt", "endAt"},
                            x \in {Undef, Null} }

\* A valid body whose start or end is a string that is no date, or an object.
MalformedBodies ==
    { [b EXCEPT ![f] = x] : b \in { CreateBody(Str(1), Str(1), Iso(t), Iso(t)) : t \in Instants },
                            f \in {"startAt", "endAt"},
                            x \in {Bad, Obj} }

NextValidate ==
    \/ \E b \in ValidBodies : Create(b, AllOk)
    \/ \E b \in MissingBodies : Create(b, AllOk)
    \/ \E b \in MalformedBodies : Create(b, AllOk)
    \/ \E id \in IdInputs : Delete(id, AllOk)

\* Creates with complete, incomplete and malformed bodies, and deletes.
SpecValidate == Init /\ [][NextValidate]_vars

\* ----- Claims checked under Spec -----
Active(r) == r.status \notin {"COMPLETED", "CANCELED"}
Parses(r) == startOf(r) # NoMs /\ endOf(r) # NoMs

\* C1: any two stored reservations on the same car whose status is neither
\* COMPLETED nor CANCELED have non-overlapping closed intervals, after every
\* sequence of create, amend and delete.
C1_NoDoubleBooking ==
    \A i \in 1..Len(reservations), j \in 1..Len(reservations) :
        LET a == reservations[i]
            b == reservations[j]
        IN  (i < j /\ a.carId = b.carId /\ Active(a) /\ Active(b) /\ Parses(a) /\ Parses(b))
                => ~(startOf(a) <= endOf(b) /\ startOf(b) <= endOf(a))

\* A step that handled a reservation create, amend or delete to success.
MutationCompleted ==
    /\ served' = served + 1
    /\ response'.op \in {"create", "patch", "delete"}
    /\ response'.code \in {200, 201}

\* C2: immediately after any completed reservation create, amend or delete,
\* every car's persisted status equals computeCarStatus over the persisted
\* reservations at that instant (for an amend that changes the car, for the old
\* car too).
C2_StatusFreshAfterMutation ==
    [][MutationCompleted =>
         \A i \in 1..Len(cars') :
            cars'[i].status = computeCarStatus(cars'[i].id, reservations', now')]_vars

\* A create body that passes the required-field validation.
HasRequired(b) ==
    Truthy(b.carId) /\ Truthy(b.customerId) /\ Truthy(b.startAt) /\ Truthy(b.endAt)

\* The candidate interval of the body meets, as closed intervals, the interval
\* of a stored reservation of the same car.
OverlapsStored(b) ==
    \E i \in 1..Len(reservations) :
        /\ reservations[i].carId = b.carId
        /\ Parses(reservations[i])
        /\ toMs(b.startAt) # NoMs /\ toMs(b.endAt) # NoMs
        /\ toMs(b.startAt) <= endOf(reservations[i])
        /\ startOf(reservations[i]) <= toMs(b.endAt)

Touches(b) == b.startAt # Undef \/ b.endAt # Undef \/ b.carId # Undef

\* The record the patch would store for the reservation at index i meets, as
\* closed intervals, another stored reservation of its (merged) car.
MergedOverlapsAnother(i, b) ==
    LET m == Merge(reservations[i], b)
    IN  \E j \in 1..Len(reservations) :
          /\ j # i
          /\ reservations[j].carId = m.carId
          /\ Parses(reservations[j]) /\ Parses(m)
          /\ startOf(m) <= endOf(reservations[j])
          /\ startOf(reservations[j]) <= endOf(m)

\* C5: an amend that touches start, end or car id and whose merged interval
\* overlaps another reservation of the merged car is rejected with the
\* conflict error; the stored record keeps every original field and no car
\* status changes.
C5_ConflictingAmendRejected ==
    [][\A id \in IdInputs, b \in PatchBodies :
          (/\ Patch(id, b, AllOk)
           /\ Touches(b)
           /\ findIndex(reservations, id) > 0
           /\ MergedOverlapsAnother(findIndex(reservations, id), b))
            => (response'.code = 409 /\ reservations' = reservations /\ cars' = cars)]_vars

\* C7: a reservation's status only moves BOOKED -> COMPLETED or BOOKED ->
\* CANCELED: once COMPLETED or CANCELED it never has another status, and it
\* is always one of the three.
C7_LifecycleOneWay ==
    [][\A i \in 1..Len(reservations), j \in 1..Len(reservations') :
          reservations[i].id = reservations'[j].id =>
            /\ reservations'[j].status \in {"BOOKED", "COMPLETED", "CANCELED"}
            /\ reservations[i].status \in {"COMPLETED", "CANCELED"}
                 => reservations'[j].status = reservations[i].status]_vars

\* C8: whenever no mutation is in progress, also after the clock has passed a
\* reservation's start or end with no operation in between, every car's
\* persisted status equals computeCarStatus at the current instant.
C8_StatusFreshAtAllTimes ==
    \A i \in 1..Len(cars) :
        cars[i].status = computeCarStatus(cars[i].id, reservations, now)

\* ----- Claims checked under SpecCheck -----
\* C6: if check(carId, start, end) with no ignoreId reports overlap = false
\* and no write intervenes, a create with the same carId, start and end (and a
\* customer id) is never rejected with the overlap conflict, for every carId
\* value a client can send, strings or not.
C6_CheckAgreesWithCreate ==
    [][\A b \in CheckCreateBodies :
          (/\ Create(b, AllOk)
           /\ response.op = "check"
           /\ ~response.overlap
           /\ response.args = <<b.carId, b.startAt, b.endAt, Undef>>
           /\ Truthy(b.customerId))
            => response'.code # 409]_vars

\* ----- Claims checked under SpecRace -----
\* Two create bodies for the same car whose candidate intervals overlap.
SameCarOverlapping(a, b) ==
    /\ a.carId = b.carId
    /\ toMs(a.startAt) # NoMs /\ toMs(a.endAt) # NoMs
    /\ toMs(b.startAt) # NoMs /\ toMs(b.endAt) # NoMs
    /\ toMs(a.startAt) <= toMs(b.endAt)
    /\ toMs(b.startAt) <= toMs(a.endAt)

\* C3 as stated: of two concurrent creates for the same car with overlapping
\* intervals exactly one receives 201 and the other 409.
C3_RaceExactlyOneWinner ==
    \A i \in 1..Len(replies), j \in 1..Len(replies) :
        (i < j /\ SameCarOverlapping(replies[i].req, replies[j].req))
            => {replies[i].code, replies[j].code} = {201, 409}

\* C3 amended: of two concurrent creates for the same car with overlapping
\* intervals at most one receives 201 (both never succeed), each receives 201
\* or 409, and both receive 409 only when each candidate overlaps a stored
\* reservation of that car.
C3_RaceAtMostOneWinner ==
    \A i \in 1..Len(replies), j \in 1..Len(replies) :
        (i < j /\ SameCarOverlapping(replies[i].req, replies[j].req))
            => /\ {replies[i].code, replies[j].code} \subseteq {201, 409}
               /\ ~(replies[i].code = 201 /\ replies[j].code = 201)
               /\ (replies[i].code = 409 /\ replies[j].code = 409)
                    => (OverlapsStored(replies[i].req) /\ OverlapsStored(replies[j].req))

\* C3's case: two creates that waited in flight together, for the same car
\* and overlapping intervals, have been answered 201 and 409.
C3_Witness ==
    /\ Len(replies) = 2
    /\ SameCarOverlapping(replies[1].req, replies[2].req)
    /\ replies[1].code = 201
    /\ replies[2].code = 409

\* ----- Claims checked under SpecIO -----
\* The files are as before the request, or as the request handled on a working
\* disk leaves them; a success is answered only for the latter.
AllOrNothing(ok) ==
    /\ \/ (reservations' = reservations /\ cars' = cars)
       \/ (reservations' = ok.reservations /\ cars' = ok.cars)
    /\ response'.code \in {200, 201} => reservations' = ok.reservations

\* C9: when a storage read or write fails during a create, amend or delete,
\* the two files are both as before or both fully reflect the operation, no
\* stored reservation is lost, and success is not reported for a reservation
\* that was not persisted.
C9_NoPartialStateOnIOError ==
    [][\A io \in IOOutcomes :
         /\ \A b \in IOCreateBodies :
               Create(b, io) =>
                 /\ AllOrNothing(createReservation(b, AllOk, reservations, cars, now,
                                                   nextId, tgConfigured))
                 /\ \A i \in 1..Len(reservations) :
                       \E j \in 1..Len(reservations') : reservations'[j] = reservations[i]
         /\ \A id \in IdInputs, b \in IOPatchBodies :
               Patch(id, b, io) =>
                 AllOrNothing(patchReservation(id, b, AllOk, reservations, cars, now))
         /\ \A id \in IdInputs :
               Delete(id, io) =>
                 AllOrNothing(deleteReservation(id, AllOk, reservations, cars, now))]_vars

\* ----- Claims checked under SpecNotify -----
\* The positions of an effect in the effects of the last handler.
Positions(e) == { i \in 1..Len(events') : events'[i] = e }

\* C10: a valid non-conflicting create returns the created reservation and
\* leaves it and the car status persisted whatever becomes of the notification,
\* which is dispatched after the reservations write and the cars write and at
\* most once per create; a notification that is delivered or fails changes
\* neither file nor the response.
C10_CreateIndependentOfNotifier ==
    [][/\ \A b \in NotifyCreateBodies :
            (Create(b, AllOk) /\ HasRequired(b) /\ ~OverlapsStored(b))
              => /\ response'.code = 201
                 /\ Len(reservations') = Len(reservations) + 1
                 /\ response'.item = <<reservations'[Len(reservations')]>>
                 /\ response'.item[1].carId = b.carId
                 /\ \A i \in 1..Len(cars') :
                       cars'[i].id = b.carId =>
                         cars'[i].status = computeCarStatus(b.carId, reservations', now)
                 /\ Cardinality(Positions("sendTelegram")) = (IF tgConfigured THEN 1 ELSE 0)
                 /\ \A p \in Positions("sendTelegram") :
                       /\ \E w \in Positions("writeReservations") : w < p
                       /\ \A w \in Positions("writeCars") : w < p
                       /\ \E w \in Positions("writeCars") : w < p
                 /\ nextId \notin outbox
                 /\ outbox' = (IF tgConfigured THEN outbox \cup {nextId} ELSE outbox)
       /\ (\E n \in outbox : TelegramDelivered(n) \/ TelegramFailed(n))
              => (reservations' = reservations /\ cars' = cars /\ response' = response)]_vars

\* C10's case: a create was answered 201, its notification failed, and the
\* reservation it returned is still stored.
C10_Witness ==
    /\ response.op = "create" /\ response.code = 201
    /\ events = <<"telegramError">>
    /\ \E i \in 1..Len(reservations) : <<reservations[i]>> = response.item
    /\ \E i \in 1..Len(cars) :
          /\ cars[i].id = response.item[1].carId
          /\ cars[i].status = computeCarStatus(cars[i].id, reservations, now)

\* ----- Claims checked under SpecValidate -----
\* C11: a create in which any of car id, customer id, start or end is missing
\* returns a validation error (400) and leaves the reservation and car
\* collections unchanged.
C11_MissingFieldRejected ==
    [][\A b \in MissingBodies :
          Create(b, AllOk)
            => (response'.code = 400 /\ reservations' = reservations /\ cars' = cars)]_vars

\* C11's case: a reservation is stored and a create with a missing field was
\* just answered 400.
C11_Witness ==
    /\ response.op = "create" /\ response.code = 400
    /\ Len(reservations) > 0
    /\ \E i \in 1..Len(cars) : cars[i].status # "FREE"

\* C12: a create whose start or end is present but does not parse to a valid
\* instant is rejected with a validation error (400) and stores nothing, so
\* every reservation stored by create has a parseable start and end.
C12_MalformedDateRejected ==
    [][/\ \A b \in MalformedBodies :
            Create(b, AllOk) => (response'.code = 400 /\ reservations' = reservations)
       /\ \A i \in 1..Len(reservations') : Parses(reservations'[i])]_vars

\* ----- Claims checked under SpecScan -----
Inactive(r) == UpperStatus(r.status) \in {"COMPLETED", "CANCELED"}
LiveOnly(r) == ~Inactive(r)

\* Some stored CANCELED or COMPLETED reservation of the car, other than the one
\* to ignore, overlaps the closed interval [s, e].
BlockedByInactive(carId, s, e, ignoreId) ==
    \E i \in 1..Len(reservations) :
        LET r == reservations[i]
        IN  /\ r.carId = carId /\ Inactive(r) /\ Parses(r) /\ r.id # ignoreId
            /\ s <= endOf(r) /\ startOf(r) <= e

\* C13: the overlap scan does not filter by status: a create or a check for a
\* car over an interval that overlaps a stored CANCELED or COMPLETED
\* reservation of that car is refused with 409, respectively reported as
\* overlapping, while the car status derivation ignores that reservation.
C13_InactiveStillBlocks ==
    [][/\ \A b \in RaceBodies :
            (Create(b, AllOk) /\ BlockedByInactive(b.carId, b.startAt.v, b.endAt.v, Null))
              => (response'.code = 409 /\ reservations' = reservations)
       /\ \A q \in ScanQueries :
            (Check(q, AllOk) /\ q.startAt.k = "iso" /\ q.endAt.k = "iso"
               /\ BlockedByInactive(q.carId, q.startAt.v, q.endAt.v, q.ignoreId))
              => response'.overlap
       /\ \A i \in 1..Len(cars) :
            computeCarStatus(cars[i].id, reservations', now)
              = computeCarStatus(cars[i].id, SelectSeq(reservations', LiveOnly), now)]_vars

\* C13's case: a create was refused with 409 although every stored reservation
\* is CANCELED or COMPLETED and every car is FREE.
C13_Witness ==
    /\ response.op = "create" /\ response.code = 409
    /\ Len(reservations) > 0
    /\ \A i \in 1..Len(reservations) : Inactive(reservations[i])
    /\ \A i \in 1..Len(cars) :
          cars[i].status = "FREE" /\ computeCarStatus(cars[i].id, reservations, now) = "FREE"

\* C19: the availability check changes no collection, and a check repeated
\* with the same arguments right after a check returns the same overlap result.
C19_CheckReadOnlyIdempotent ==
    [][\A q \in ScanQueries :
          Check(q, AllOk)
            => /\ reservations' = reservations
               /\ cars' = cars
               /\ (response.op = "check"
                     /\ response.args = <<q.carId, q.startAt, q.endAt, q.ignoreId>>)
                    => response'.overlap = response.overlap]_vars

\* C19's case: after a create, two checks were answered and the last one
\* reports an overlap.
C19_Witness ==
    /\ response.op = "check" /\ response.overlap
    /\ Len(reservations) = 1
    /\ nextId = 2
    /\ served = 3

\* A request value that names an instant.
IsInstant(x) == x.k \in {"iso", "num"}

\* The overlap result the check is to give: the candidate parses, and some
\* stored reservation of the car, other than the one to ignore, has a
\* parseable start and end with candidateStart <= rEnd and rStart <= candidateEnd.
ExpectedOverlap(q) ==
    /\ IsInstant(q.startAt)
    /\ IsInstant(q.endAt)
    /\ \E i \in 1..Len(reservations) :
          LET r  == reservations[i]
              rs == Coalesce(r.startAt, r.startDate)
              re == Coalesce(r.endAt, r.endDate)
          IN  /\ r.carId = q.carId
              /\ r.id # q.ignoreId
              /\ IsInstant(rs)
              /\ IsInstant(re)
              /\ q.startAt.v <= re.v
              /\ rs.v <= q.endAt.v

\* C20: hasOverlap returns false when the candidate start or end does not
\* parse; otherwise it returns true exactly when some stored reservation of the
\* same car, with an id other than ignoreId and a parseable start and end,
\* satisfies candidateStart <= rEnd and rStart <= candidateEnd (closed
\* intervals: touching at one instant overlaps; unparseable stored dates never
\* block).
C20_HasOverlapCharacterised ==
    [][\A q \in ScanQueries :
          Check(q, AllOk) => (response'.overlap <=> ExpectedOverlap(q))]_vars

\* C20's case: a check whose candidate begins at the very instant a stored
\* reservation of the car ends, and meets no reservation otherwise, reports an
\* overlap.
C20_Witness ==
    /\ response.op = "check" /\ response.overlap
    /\ response.args[2].k = "iso" /\ response.args[3].k = "iso"
    /\ response.args[2].v < response.args[3].v
    /\ \E i \in 1..Len(reservations) :
          /\ reservations[i].carId = response.args[1]
          /\ Parses(reservations[i])
          /\ startOf(reservations[i]) < endOf(reservations[i])
          /\ endOf(reservations[i]) = response.args[2].v
    /\ \A i \in 1..Len(reservations) :
          (reservations[i].carId = response.args[1] /\ Parses(reservations[i]))
            => endOf(reservations[i]) <= response.args[2].v

\* ----- Claims checked under SpecPrice -----
\* A step that stored a reservation with a freshly computed price.
Priced ==
    /\ served' = served + 1
    /\ \/ response'.op = "create" /\ response'.code = 201
       \/ response'.op = "patch" /\ response'.code = 200
    /\ response'.item[1].pricePerDay.k = "num"
    /\ response'.item[1].days.k = "num"
    /\ response'.item[1].discountPercent.k = "num"

\* C14: for unit price u >= 0, day count d >= 1 and discount disc in 0..100 the
\* total stored by create and amend does not decrease when u or d grows, does
\* not increase when disc grows, and equals u * d when disc = 0.
C14_PriceMonotone ==
    [][Priced =>
         LET it    == response'.item[1]
             u     == it.pricePerDay
             d     == it.days
             disc  == it.discountPercent
             total == it.totalPrice
         IN  /\ total.k = "num"
             /\ total.v >= 0
             /\ totalPriceOf(Num(u.v + 1), d, disc).v >= total.v
             /\ totalPriceOf(u, Num(d.v + 1), disc).v >= total.v
             /\ disc.v < 100 => totalPriceOf(u, d, Num(disc.v + 1)).v <= total.v
             /\ disc.v > 0 => totalPriceOf(u, d, Num(disc.v - 1)).v >= total.v
             /\ disc.v = 0 => total.v = u.v * d.v]_vars

\* C14's case: a discounted total that was rounded, over more than one day.
C14_Witness ==
    /\ response.op \in {"create", "patch"} /\ response.code \in {200, 201}
    /\ response.item[1].discountPercent = Num(50)
    /\ response.item[1].days.k = "num" /\ response.item[1].days.v = MaxDay + 1
    /\ response.item[1].pricePerDay = Num(MaxPrice)
    /\ response.item[1].totalPrice.k = "num"
    /\ 2 * response.item[1].totalPrice.v = MaxPrice * (MaxDay + 1) + 1

\* The local calendar day of an instant.
DayOf(t) == t \div TicksPerDay

\* C15: the inclusive day count is day(end) - day(start) + 1 when end is not
\* before start, exactly 1 when start and end are the same instant, and never
\* less than 1 for any two valid instants.
C15_DayCountInclusive ==
    [][(served' = served + 1 /\ response'.op = "create" /\ response'.code = 201)
            => LET days == response'.item[1].days
                   s    == response'.item[1].startAt.v
                   e    == response'.item[1].endAt.v
               IN  /\ days.k = "num"
                   /\ days.v >= 1
                   /\ e >= s => days.v = DayOf(e) - DayOf(s) + 1
                   /\ e = s => days.v = 1]_vars

\* C15's case: a reservation whose end is before its start was stored with a
\* day count of one.
C15_Witness ==
    /\ response.op = "create" /\ response.code = 201
    /\ response.item[1].endAt.v < response.item[1].startAt.v
    /\ DayOf(response.item[1].endAt.v) < DayOf(response.item[1].startAt.v)
    /\ response.item[1].days = Num(1)

\* The base price of the car with this id.
BaseOf(carId) == cars[CHOOSE i \in 1..Len(cars) : cars[i].id = carId].basePricePerDay.v

\* The stored status of the car with this id, after the step.
StatusAfter(carId) == cars'[CHOOSE i \in 1..Len(cars') : cars'[i].id = carId].status

\* What a successful create without a unit price stores.
StoresBasePrice(b) ==
    LET it == response'.item[1]
    IN  /\ it.pricePerDay = Num(BaseOf(b.carId))
        /\ it.days = Num(DayOf(b.endAt.v) - DayOf(b.startAt.v) + 1)
        /\ it.totalPrice = Num(BaseOf(b.carId) * (DayOf(b.endAt.v) - DayOf(b.startAt.v) + 1))
        /\ it.status = "BOOKED"
        /\ reservations'[Len(reservations')] = it

\* The last request was a successful create and b is a create for the same car
\* that starts after that reservation's end.
LaterThanLast(b) ==
    /\ response.op = "create" /\ response.code = 201
    /\ response.item[1].carId = b.carId
    /\ b.startAt.v > response.item[1].endAt.v

\* Some live stored reservation of the car contains the present instant.
OtherInUse(carId) ==
    \E i \in 1..Len(reservations) :
        /\ reservations[i].carId = carId /\ Active(reservations[i]) /\ Parses(reservations[i])
        /\ startOf(reservations[i]) <= now /\ now <= endOf(reservations[i])

\* C16 as stated: a successful create without a unit price stores the car's
\* base price p, days = d2 - d1 + 1, totalPrice = p * days and status BOOKED;
\* the car is then RESERVED if now is before the start and IN_USE if now lies
\* within the interval; a later create on the same car starting after the
\* first reservation's end succeeds.
C16_BasePriceScenario ==
    [][\A b \in BaseBodies :
          Create(b, AllOk) =>
            /\ response'.code = 201 =>
                 /\ StoresBasePrice(b)
                 /\ now < b.startAt.v => StatusAfter(b.carId) = "RESERVED"
                 /\ (b.startAt.v <= now /\ now <= b.endAt.v) => StatusAfter(b.carId) = "IN_USE"
            /\ LaterThanLast(b) => response'.code = 201]_vars

\* C16 for a car whose other reservations are taken into account: the status
\* is RESERVED before the start only when no other live reservation of the car
\* is in progress, and the later create succeeds when it overlaps no stored
\* reservation of the car.
C16_BasePriceScenarioGuarded ==
    [][\A b \in BaseBodies :
          Create(b, AllOk) =>
            /\ response'.code = 201 =>
                 /\ StoresBasePrice(b)
                 /\ (now < b.startAt.v /\ ~OtherInUse(b.carId))
                       => StatusAfter(b.carId) = "RESERVED"
                 /\ (now < b.startAt.v /\ OtherInUse(b.carId))
                       => StatusAfter(b.carId) = "IN_USE"
                 /\ (b.startAt.v <= now /\ now <= b.endAt.v) => StatusAfter(b.carId) = "IN_USE"
            /\ (LaterThanLast(b) /\ ~OverlapsStored(b)) => response'.code = 201]_vars

\* C16's case: two reservations of the car with the higher base price, the
\* second starting after the first one's end, priced at the base price.
C16_Witness ==
    /\ response.op = "create" /\ response.code = 201
    /\ Len(reservations) = 2
    /\ reservations[1].carId = Str(2) /\ reservations[2].carId = Str(2)
    /\ reservations[2].startAt.v > reservations[1].endAt.v
    /\ reservations[2].pricePerDay = Num(MaxPrice)
    /\ reservations[2].days = Num(2)
    /\ reservations[2].totalPrice = Num(2 * MaxPrice)

\* ----- Claims checked under SpecLedger -----
\* The calendar month of Asia/Baku that a month token names.
BakuMonth(month) == IF month.k = "num" THEN month.v ELSE now \div TicksPerMonth

\* The entry's 'when' (or, if absent, creation) instant lies in month m.
DatedIn(x, m) ==
    LET t == IF x.when.k = "iso" THEN x.when ELSE x.createdAt
    IN  t.v \div TicksPerMonth = m

\* The report holds exactly these items, their sum and their number.
Reports(items, field) ==
    /\ response'.item = items
    /\ response'.args = <<sumOf(items, field), Len(items)>>

\* C17: an expense-ledger query for month M returns exactly the entries whose
\* 'when' (or creation) instant lies within calendar month M of the ledger's
\* time zone, restricted to the car id when one is given; count is their
\* number and total the sum of their amounts. Entries of the last day of the
\* month before and of the first day of the month after are left out.
C17_LedgerMonthExact ==
    [][\A month \in MonthTokens :
          /\ GetAdminExpenses(month)
               => Reports(SelectSeq(adminExpenses,
                                    LAMBDA x : DatedIn(x, BakuMonth(month))), "amount")
          /\ \A c \in {Undef, Str(1)} :
               GetCarExpenses(month, c)
                 => Reports(SelectSeq(carExpenses,
                                      LAMBDA x : /\ DatedIn(x, BakuMonth(month))
                                                 /\ (c # Undef => x.carId = c)), "amount")]_vars

\* ----- Claims checked under SpecRevenue -----
\* C18: the revenue report for month M holds exactly the stored reservations
\* with a parseable start and end whose interval intersects M's window, so a
\* reservation across a month boundary is in the report of both months; total
\* is the sum of totalPrice over the items and count their number.
C18_RevenueByIntersection ==
    [][\A month \in MonthTokens :
          GetRevenue(month)
            => LET w == monthWindow(month, now, tzShift)
               IN  Reports(SelectSeq(reservations,
                                     LAMBDA r : /\ Parses(r)
                                                /\ startOf(r) <= w.end
                                                /\ w.start <= endOf(r)), "totalPrice")]_vars

\* ----- Further claims checked under Spec -----
\* The stored start and end of a reservation, as request values.
StartValue(r) == Coalesce(r.startAt, r.startDate)
EndValue(r)   == Coalesce(r.endAt, r.endDate)

\* The reservations the status derivation is to consider: of this car, neither
\* COMPLETED nor CANCELED, with dates that parse.
Considered(carId, list) ==
    { i \in 1..Len(list) :
        /\ list[i].carId = carId
        /\ list[i].status \notin {"COMPLETED", "CANCELED"}
        /\ IsInstant(StartValue(list[i]))
        /\ IsInstant(EndValue(list[i])) }

ExpectedStatus(carId, list, clock) ==
    IF \E i \in Considered(carId, list) :
          StartValue(list[i]).v <= clock /\ clock <= EndValue(list[i]).v
    THEN "IN_USE"
    ELSE IF \E i \in Considered(carId, list) : StartValue(list[i]).v > clock
    THEN "RESERVED"
    ELSE "FREE"

\* C21: computeCarStatus considers only the car's reservations that are neither
\* COMPLETED nor CANCELED and whose dates parse; it gives IN_USE if one of them
\* has start <= now <= end, otherwise RESERVED if one has start > now,
\* otherwise FREE, and it is a function of the reservations and now alone.
C21_StatusDerivation ==
    [][MutationCompleted =>
         \A i \in 1..Len(cars') :
            /\ computeCarStatus(cars'[i].id, reservations', now)
                 = ExpectedStatus(cars'[i].id, reservations', now)
            /\ cars'[i].id = response'.item[1].carId
                 => cars'[i].status = ExpectedStatus(cars'[i].id, reservations', now)]_vars

\* C21's case: a car with a live reservation in progress and a live one still
\* to come was recomputed to IN_USE.
C21_Witness ==
    /\ response.op = "create" /\ response.code = 201
    /\ \E i \in 1..Len(cars) :
          /\ cars[i].id = response.item[1].carId
          /\ cars[i].status = "IN_USE"
          /\ \E a \in Considered(cars[i].id, reservations) :
                StartValue(reservations[a]).v > now
          /\ \E a \in Considered(cars[i].id, reservations) :
                StartValue(reservations[a]).v <= now /\ now <= EndValue(reservations[a]).v

\* ----- Claims checked under SpecAmend -----
\* The inclusive day count of two instants, floored at one.
InclusiveDays(s, e) ==
    IF DayOf(e) - DayOf(s) + 1 >= 1 THEN DayOf(e) - DayOf(s) + 1 ELSE 1

\* C22: after any successful create or amend, every stored reservation's days
\* is the inclusive day count of its stored start and end, and its totalPrice
\* is round(pricePerDay * days * (1 - discountPercent/100)) of its own stored
\* fields, also when the amend changed only the unit price or the discount.
C22_PriceFieldsConsistent ==
    [][(served' = served + 1 /\ response'.op \in {"create", "patch"}
          /\ response'.code \in {200, 201})
         => \A i \in 1..Len(reservations') :
               LET r == reservations'[i]
               IN  /\ r.days = Num(InclusiveDays(r.startAt.v, r.endAt.v))
                   /\ r.totalPrice
                        = Num((r.pricePerDay.v * r.days.v * (100 - r.discountPercent.v) + 50)
                                \div 100)]_vars

\* ----- Claims checked under SpecMonth -----
\* The token names a month 01..12 of its year.
WellFormed(token) == token.k = "ym" /\ token.m \in 1..MonthsPerYear

\* The window the token is to give: that of the month it names, or that of
\* the current month when it is absent or malformed.
ExpectedWindow(token) ==
    IF WellFormed(token)
    THEN monthWindow(Num(token.y * MonthsPerYear + token.m - 1), now, tzShift)
    ELSE monthWindow(Undef, now, tzShift)

\* C23: an absent month token and every malformed token (anything that is not
\* a YYYY-MM naming a month 01..12) give the window of the current month, and
\* no token gives the window of a month other than the one it names.
C23_MalformedMonthIsCurrent ==
    [][\A token \in YmTokens :
          /\ GetAdminExpenses(token)
               => response'.item
                    = SelectSeq(adminExpenses, LAMBDA x : inWindow(x, ExpectedWindow(token)))
          /\ GetRevenue(token)
               => response'.item
                    = SelectSeq(reservations,
                                LAMBDA r : /\ startOf(r) <= ExpectedWindow(token).end
                                           /\ ExpectedWindow(token).start <= endOf(r))]_vars

\* ----- Claims checked under SpecEdit -----
\* C24: after any sequence of create, patch and delete on the two ledgers,
\* every entry of the car-expense ledger has a non-empty carId and no entry of
\* the admin-expense ledger has a carId.
C24_LedgersDisjoint ==
    /\ \A i \in 1..Len(carExpenses) : carExpenses[i].carId.k \in {"str", "digits"}
    /\ \A i \in 1..Len(adminExpenses) : adminExpenses[i].carId = Undef

\* ----- Claims checked under SpecCars -----
\* C25: a car's stored status is always one of FREE, RESERVED, IN_USE; the car
\* create and the car patch never store a status taken from the request (a new
\* car is FREE, a patched car keeps its status); the status changes only by the
\* recomputation that follows a reservation create, amend or delete.
C25_StatusNotSettable ==
    [][/\ \A i \in 1..Len(cars') : cars'[i].status \in {"FREE", "RESERVED", "IN_USE"}
       /\ \A b \in CarBodies :
            PostCar(b) => /\ cars'[Len(cars')].status = "FREE"
                          /\ \A i \in 1..Len(cars) : cars'[i].status = cars[i].status
       /\ \A id \in IdInputs, b \in CarBodies :
            PatchCar(id, b) => \A i \in 1..Len(cars) : cars'[i].status = cars[i].status]_vars

\* ----- Frame of the reservation handlers, checked under Spec -----
\* The cars are as before except for the status of the car with this id.
OnlyCarTouched(carId) ==
    /\ Len(cars') = Len(cars)
    /\ \A i \in 1..Len(cars) :
          /\ cars'[i].id = cars[i].id
          /\ cars'[i].basePricePerDay = cars[i].basePricePerDay
          /\ cars[i].id # carId => cars'[i] = cars[i]

\* Nothing but the response changed.
NothingStored == reservations' = reservations /\ cars' = cars

\* C26: a reservation create, amend or delete changes only the targeted
\* reservation record and the status of the car it recomputes: every other
\* stored reservation and their order, the status of every other car, and the
\* customer and expense collections are unchanged.
C26_FrameOfMutations ==
    [][/\ \A b \in CreateBodies :
            Create(b, AllOk) =>
              /\ UNCHANGED <<customers, carExpenses, adminExpenses>>
              /\ IF response'.code = 201
                 THEN /\ Len(reservations') = Len(reservations) + 1
                      /\ SubSeq(reservations', 1, Len(reservations)) = reservations
                      /\ OnlyCarTouched(b.carId)
                 ELSE NothingStored
       /\ \A id \in IdInputs, b \in PatchBodies :
            Patch(id, b, AllOk) =>
              /\ UNCHANGED <<customers, carExpenses, adminExpenses>>
              /\ IF response'.code = 200
                 THEN /\ Len(reservations') = Len(reservations)
                      /\ \A j \in 1..Len(reservations) :
                            reservations[j].id # id => reservations'[j] = reservations[j]
                      /\ OnlyCarTouched(response'.item[1].carId)
                 ELSE NothingStored
       /\ \A id \in IdInputs :
            Delete(id, AllOk) =>
              /\ UNCHANGED <<customers, carExpenses, adminExpenses>>
              /\ IF response'.code = 200
                 THEN /\ Len(reservations') = Len(reservations) - 1
                      /\ \A j \in 1..Len(reservations') :
                            reservations'[j]
                              = reservations[IF j < findIndex(reservations, id) THEN j ELSE j + 1]
                      /\ OnlyCarTouched(response'.item[1].carId)
                 ELSE NothingStored]_vars

\* C26's case: one of two stored reservations was amended to another car, whose
\* status was recomputed, while the other car kept a status that is not FREE.
C26_Witness ==
    /\ response.op = "patch" /\ response.code = 200
    /\ Len(reservations) = 2
    /\ \E i \in 1..Len(cars), j \in 1..Len(cars) :
          /\ cars[i].id = response.item[1].carId
          /\ cars[j].id # response.item[1].carId
          /\ cars[i].status # "FREE"
          /\ cars[j].status # "FREE"
          /\ cars[i].status # cars[j].status

\* ----- Not found, delete, and create again, checked under Spec -----
\* The create that repeats the car, the customer and the interval of a record.
Again(r) == CreateBody(r.carId, r.customerId, r.startAt, r.endAt)

\* The answer create would give to this body in the state after the step.
CodeAfter(body) ==
    createReservation(body, AllOk, reservations', cars', now', nextId', tgConfigured').response.code

\* C27: an amend or delete of an id that matches no stored reservation answers
\* 404 and changes nothing; a delete of a stored reservation removes exactly
\* that record, and afterwards a create for the same car and interval succeeds
\* unless another reservation of that car overlaps it; deleting the record a
\* create appended restores the collection.
C27_NotFoundAndRoundTrip ==
    [][/\ \A id \in IdInputs, b \in PatchBodies :
            (Patch(id, b, AllOk) /\ findIndex(reservations, id) = 0)
              => (response'.code = 404 /\ NothingStored)
       /\ \A id \in IdInputs :
            Delete(id, AllOk) =>
              LET i == findIndex(reservations, id) IN
                IF i = 0
                THEN response'.code = 404 /\ NothingStored
                ELSE /\ response'.code = 200
                     /\ reservations' = splice(reservations, i)
                     /\ (i = Len(reservations)
                           => reservations' = SubSeq(reservations, 1, Len(reservations) - 1))
                     /\ (~hasOverlap(reservations', reservations[i].carId,
                                     reservations[i].startAt, reservations[i].endAt, Null)
                           => CodeAfter(Again(reservations[i])) = 201)]_vars

====
